---- MODULE Spec2Model ----
(***************************************************************************)
(* A model of evo-arena's simulation core: the Game payoff abstraction     *)
(* (games.py), the strategies and their registry (strategies/), and the   *)
(* match engine of GameTheoryEngine (engine.py).                           *)
(*                                                                         *)
(* Probabilities (the noise level, a random.random() draw) are integers in *)
(* hundredths: 0.2 is 20, a draw of 0.15 is 15.  Python's None is the      *)
(* string None_ for a name and the empty sequence for an optional number.  *)
(***************************************************************************)
EXTENDS Integers, Sequences, FiniteSets, TLC

VARIABLES
    games,          \* self.games: the loaded games in dict (insertion) order
    strategy_names, \* self.strategy_names
    default_rounds, \* self.default_rounds
    pc,             \* position of the running operation
    call,           \* the operation invoked and its arguments as passed
    frame,          \* the match loop's parameters after defaulting
    round_num,      \* the for loop's round_num
    p1_moves, p2_moves, move_history,
    p1_move, p2_move,
    p1_score, p2_score,
    err,            \* the exception that ended the operation ("" for none)
    ret,            \* the value returned
    obs,            \* what the round's decisions were given and did
    tour,           \* round_robin_tournament's locals
    evo             \* evolutionary_simulation's locals

engineVars == <<games, strategy_names, default_rounds>>
loopVars == <<round_num, p1_moves, p2_moves, move_history, p1_move, p2_move,
              p1_score, p2_score>>
simVars == <<tour, evo>>
vars == <<games, strategy_names, default_rounds, pc, call, frame, round_num,
          p1_moves, p2_moves, move_history, p1_move, p2_move, p1_score,
          p2_score, err, ret, obs, tour, evo>>

----------------------------------------------------------------------------
(* Bounds of the model *)

\* the largest round count a caller passes
MaxRounds == 3
\* the longest history handed to a direct _noisy_decide call
MaxHist == 2
\* the largest repeat count a caller passes to round_robin_tournament
MaxRepeats == 2
\* the largest population size a caller passes to evolutionary_simulation
MaxPop == 2
\* the largest generation count a caller passes to evolutionary_simulation
MaxGens == 2
\* the longest history handed to a direct decide call
MaxDecideLen == 4

(* Program constants *)

\* engine.py:47, the noise ceiling 0.2 in hundredths
NOISE_MAX == 20
\* engine.py:217, repeated_match's `rounds or 100`
REPEATED_DEFAULT_ROUNDS == 100
\* engine.py:24, config.get('default_rounds', 10)
FALLBACK_DEFAULT_ROUNDS == 10
\* engine.py:304, n_opp = 5
N_OPP == 5
\* engine.py:305, short_rounds = max(5, rounds_per_match // 10)
MIN_SHORT_ROUNDS == 5
SHORT_ROUNDS_DIVISOR == 10
\* engine.py:314, cxUniform's indpb=0.5 in hundredths
MATE_INDPB == 50
\* engine.py:315, mutUniformInt's indpb=0.2 in hundredths
MUTATE_INDPB == 20
\* engine.py:316, selTournament's tournsize=3
TOURNSIZE == 3
\* engine.py:346, the crossover probability 0.5 in hundredths
CXPB == 50
\* engine.py:352, the mutation probability 0.1 in hundredths
MUTPB == 10

None_ == "None"

----------------------------------------------------------------------------
(* Sequences *)

Last(s) == s[Len(s)]
InSeq(x, s) == \E i \in 1..Len(s) : s[i] = x
SeqsUpTo(S, n) == UNION {[1..k -> S] : k \in 0..n}

----------------------------------------------------------------------------
(* games.py *)

\* ast.literal_eval on the key strings the configurations use
literal_eval(key_str) ==
    CASE key_str = "('C', 'C')" -> <<"C", "C">>
      [] key_str = "('C', 'D')" -> <<"C", "D">>
      [] key_str = "('D', 'C')" -> <<"D", "C">>
      [] key_str = "('D', 'D')" -> <<"D", "D">>
      [] key_str = "('Dove', 'Dove')" -> <<"Dove", "Dove">>
      [] key_str = "('Dove', 'Hawk')" -> <<"Dove", "Hawk">>
      [] key_str = "('Hawk', 'Dove')" -> <<"Hawk", "Dove">>
      [] key_str = "('Hawk', 'Hawk')" -> <<"Hawk", "Hawk">>
      [] key_str = "('X', 'Y')" -> <<"X", "Y">>

\* Game.__init__ stores its arguments unchecked
Game(payoffs, valid_actions, description) ==
    [payoffs |-> payoffs, valid_actions |-> valid_actions,
     description |-> description]

\* Game.from_config
from_config(data) ==
    LET keys == DOMAIN data.payoffs
        payoffs == [m \in {literal_eval(k) : k \in keys} |->
                      data.payoffs[CHOOSE k \in keys : literal_eval(k) = m]]
        description ==
            IF "description" \in DOMAIN data THEN <<data.description>>
            ELSE <<IF "name" \in DOMAIN data THEN data.name ELSE "Game",
                   " payoff matrix.">>
    IN  Game(payoffs, data.valid_actions, description)

\* Game.validate_move: TRUE when it raises
validate_move_raises(game, move) == ~InSeq(move, game.valid_actions)

\* as get_payoff, with the table indexed before the moves are validated
get_payoff_lookup_first(game, p1_move_, p2_move_) ==
    IF <<p1_move_, p2_move_>> \notin DOMAIN game.payoffs
    THEN [raised |-> "KeyError", payoff |-> <<0, 0>>]
    ELSE IF validate_move_raises(game, p1_move_)
            \/ validate_move_raises(game, p2_move_)
    THEN [raised |-> "InvalidMove", payoff |-> <<0, 0>>]
    ELSE [raised |-> "", payoff |-> game.payoffs[<<p1_move_, p2_move_>>]]

\* Game.get_payoff: both moves are validated, then the table is indexed
get_payoff(game, p1_move_, p2_move_) ==
    IF validate_move_raises(game, p1_move_)
    THEN [raised |-> "InvalidMove", payoff |-> <<0, 0>>]
    ELSE IF validate_move_raises(game, p2_move_)
    THEN [raised |-> "InvalidMove", payoff |-> <<0, 0>>]
    ELSE IF <<p1_move_, p2_move_>> \notin DOMAIN game.payoffs
    THEN [raised |-> "KeyError", payoff |-> <<0, 0>>]
    ELSE [raised |-> "", payoff |-> game.payoffs[<<p1_move_, p2_move_>>]]

----------------------------------------------------------------------------
(* The configurations an engine is constructed from *)

PDData ==
    [payoffs |-> ("('C', 'C')" :> <<3, 3>>) @@ ("('C', 'D')" :> <<0, 5>>)
                 @@ ("('D', 'C')" :> <<5, 0>>) @@ ("('D', 'D')" :> <<1, 1>>),
     valid_actions |-> <<"C", "D">>]

HawkDoveData ==
    [payoffs |-> ("('Dove', 'Dove')" :> <<2, 2>>)
                 @@ ("('Dove', 'Hawk')" :> <<1, 3>>)
                 @@ ("('Hawk', 'Dove')" :> <<3, 1>>)
                 @@ ("('Hawk', 'Hawk')" :> <<0, 0>>),
     valid_actions |-> <<"Dove", "Hawk">>,
     description |-> "Hawk-Dove test"]

XYData ==
    [payoffs |-> ("('X', 'Y')" :> <<1, 1>>),
     valid_actions |-> <<"X", "Y">>]

Configs ==
    { [games |-> <<[name |-> "PD", data |-> PDData],
                   [name |-> "HawkDove", data |-> HawkDoveData],
                   [name |-> "XY", data |-> XYData]>>,
       strategies |-> <<"AlwaysCooperate", "AlwaysDefect", "TitForTat",
                        "GrimTrigger", "ForgivingTitForTat">>,
       default_rounds |-> <<2>>],
      [games |-> <<[name |-> "HawkDove", data |-> HawkDoveData],
                   [name |-> "PD", data |-> PDData]>>,
       strategies |-> <<"AlwaysCooperate", "AlwaysDefect", "TitForTat",
                        "GrimTrigger">>,
       default_rounds |-> <<2>>],
      [games |-> <<[name |-> "PD", data |-> PDData]>>,
       strategies |-> <<"AlwaysDefect", "AlwaysCooperate">>,
       default_rounds |-> <<2>>],
      [games |-> <<[name |-> "PD", data |-> PDData]>>,
       strategies |-> <<>>,
       default_rounds |-> <<2>>] }

----------------------------------------------------------------------------
(* strategies/: the decision of each registered class *)

AlwaysCooperate_decide(opponent_history) == "C"

AlwaysDefect_decide(opponent_history) == "D"

\* as TitForTat_decide, without the mirroring
TitForTat_never_mirrors(opponent_history) == "C"

TitForTat_decide(opponent_history) ==
    IF opponent_history = <<>> THEN "C" ELSE Last(opponent_history)

\* a GrimTrigger that looks at the opponent's last move only
GrimTrigger_last_move_only(opponent_history) ==
    IF opponent_history # <<>> /\ Last(opponent_history) = "D" THEN "D"
    ELSE "C"

GrimTrigger_decide(opponent_history) ==
    IF InSeq("D", opponent_history) THEN "D" ELSE "C"

\* a ForgivingTitForTat that forgives after a single defection
ForgivingTitForTat_forgives_one(opponent_history) ==
    IF opponent_history = <<>> \/ Last(opponent_history) = "D" THEN "C"
    ELSE Last(opponent_history)

ForgivingTitForTat_decide(opponent_history) ==
    IF opponent_history = <<>> THEN "C"
    ELSE IF Len(opponent_history) >= 2
            /\ opponent_history[Len(opponent_history) - 1] = "D"
            /\ opponent_history[Len(opponent_history)] = "D"
    THEN "C"
    ELSE Last(opponent_history)

\* the registry load_strategies builds from system/ and custom/
STRATEGY_REGISTRY ==
    {"AlwaysCooperate", "AlwaysDefect", "TitForTat", "GrimTrigger",
     "ForgivingTitForTat"}

\* strat.decide(opponent_history), dispatched on the instance's class
decide(strat, opponent_history) ==
    CASE strat = "AlwaysCooperate" -> AlwaysCooperate_decide(opponent_history)
      [] strat = "AlwaysDefect" -> AlwaysDefect_decide(opponent_history)
      [] strat = "TitForTat" -> TitForTat_decide(opponent_history)
      [] strat = "GrimTrigger" -> GrimTrigger_decide(opponent_history)
      [] strat = "ForgivingTitForTat" ->
            ForgivingTitForTat_decide(opponent_history)

----------------------------------------------------------------------------
(* engine.py: helpers *)

HasGame(name) == \E i \in 1..Len(games) : games[i].name = name
GameOf(name) == games[CHOOSE i \in 1..Len(games) : games[i].name = name].game
\* list(self.games.values())[0]
FirstGame == games[1].game

\* every name taken for a given one
truthy_always(name) == TRUE

\* Python truthiness of an Optional[str]
Truthy(name) == name # None_ /\ name # ""

\* a lookup that hands out AlwaysCooperate for a name the registry lacks
get_strategy_lenient(name) ==
    [raised |-> "",
     strat |-> IF name \in STRATEGY_REGISTRY THEN name ELSE "AlwaysCooperate"]

\* GameTheoryEngine._get_strategy
_get_strategy(name) ==
    IF name \notin STRATEGY_REGISTRY
    THEN [raised |-> "UnknownStrategy", strat |-> None_]
    ELSE [raised |-> "", strat |-> name]

\* as _noisy_decide, with the flip tested as `noise >= 0 and draw <= noise`
noisy_decide_inclusive(strat, opp_history, noise, draw) ==
    IF ~(0 <= noise /\ noise <= NOISE_MAX)
    THEN [raised |-> "InvalidParameter", move |-> None_, chosen |-> None_,
          fired |-> FALSE, decided |-> 0, drew |-> 0]
    ELSE
      LET move == decide(strat, opp_history) IN
      IF draw <= noise
      THEN LET valid == FirstGame.valid_actions
               other_moves == SelectSeq(valid, LAMBDA a : a # move)
           IN  [raised |-> "",
                move |-> IF other_moves # <<>> THEN other_moves[1] ELSE move,
                chosen |-> move, fired |-> TRUE, decided |-> 1, drew |-> 1]
      ELSE [raised |-> "", move |-> move, chosen |-> move,
            fired |-> FALSE, decided |-> 1, drew |-> 1]

\* as _noisy_decide, with only the ceiling of the noise range tested
noisy_decide_ceiling_only(strat, opp_history, noise, draw) ==
    IF ~(noise <= NOISE_MAX)
    THEN [raised |-> "InvalidParameter", move |-> None_, chosen |-> None_,
          fired |-> FALSE, decided |-> 0, drew |-> 0]
    ELSE
      LET move == decide(strat, opp_history) IN
      IF noise > 0
      THEN IF draw < noise
           THEN LET valid == FirstGame.valid_actions
                    other_moves == SelectSeq(valid, LAMBDA a : a # move)
                IN  [raised |-> "",
                     move |-> IF other_moves # <<>> THEN other_moves[1]
                              ELSE move,
                     chosen |-> move, fired |-> TRUE,
                     decided |-> 1, drew |-> 1]
           ELSE [raised |-> "", move |-> move, chosen |-> move,
                 fired |-> FALSE, decided |-> 1, drew |-> 1]
      ELSE [raised |-> "", move |-> move, chosen |-> move, fired |-> FALSE,
            decided |-> 1, drew |-> 0]

\* GameTheoryEngine._noisy_decide; draw is what random.random() returns when
\* it is called.  decided and drew count the calls of strat.decide and of
\* random.random(); chosen is the strategy's move, fired the flip.
_noisy_decide(strat, opp_history, noise, draw) ==
    IF ~(0 <= noise /\ noise <= NOISE_MAX)
    THEN [raised |-> "InvalidParameter", move |-> None_, chosen |-> None_,
          fired |-> FALSE, decided |-> 0, drew |-> 0]
    ELSE
      LET move == decide(strat, opp_history) IN
      IF noise > 0
      THEN IF draw < noise
           THEN LET valid == FirstGame.valid_actions
                    other_moves == SelectSeq(valid, LAMBDA a : a # move)
                IN  [raised |-> "",
                     move |-> IF other_moves # <<>> THEN other_moves[1]
                              ELSE move,
                     chosen |-> move, fired |-> TRUE,
                     decided |-> 1, drew |-> 1]
           ELSE [raised |-> "", move |-> move, chosen |-> move,
                 fired |-> FALSE, decided |-> 1, drew |-> 1]
      ELSE [raised |-> "", move |-> move, chosen |-> move, fired |-> FALSE,
            decided |-> 1, drew |-> 0]

\* str.upper() on what a human types at the prompt
upper(typed) ==
    CASE typed = "c" -> "C"
      [] typed = "D" -> "D"
      [] typed = "Dove" -> "DOVE"
      [] typed = "x" -> "X"

----------------------------------------------------------------------------
(* The arguments the operations are called with *)

StrategyArgs == STRATEGY_REGISTRY \cup {"NonExistent"}
OptStrategyArgs == StrategyArgs \cup {None_}
GameArgs == {"PD", "HawkDove", "XY", "UnknownGame"}
RoundArgs == (0 - 1)..MaxRounds
NoiseArgs == {0 - 5, 0, 10, NOISE_MAX, 30}
Draws == {0, 15, 50}
ModeArgs == {0, 1, 2, 99}
RepeatArgs == 0..MaxRepeats
PopArgs == (0 - 1)..MaxPop
GenerationArgs == (0 - 1)..MaxGens
EvoRoundArgs == {0 - 1, 60}
EvoNoiseArgs == {0 - 5, 0, 30}
MoveArgs == {"C", "D", "Dove", "Hawk", "X", "Y", "Invalid"}
TypedInputs == {"c", "D", "Dove", "x"}

NoObs ==
    [seen1 |-> <<>>, seen2 |-> <<>>, chosen1 |-> None_, chosen2 |-> None_,
     fired1 |-> FALSE, fired2 |-> FALSE, n_decide |-> 0, n_random |-> 0,
     n_human |-> 0, n_payoff |-> 0]
NoFrame ==
    [op |-> "", game_name |-> None_, mode |-> 0, strat1 |-> None_,
     strat2 |-> None_, rounds |-> 0, noise |-> 0]
NoRet == [kind |-> "none", move |-> None_, payoff |-> <<0, 0>>]
NoTour ==
    [game_name |-> None_, rounds_per_match |-> 0, repeats |-> 0, noise |-> 0,
     k |-> 0, total_scores |-> <<>>, n_matches |-> 0, log |-> <<>>,
     ranking |-> <<>>]
NoEvo ==
    [game_name |-> None_, pop_size |-> 0, generations |-> 0,
     rounds_per_match |-> 0, noise |-> 0, gen |-> 0, i |-> 0, score |-> 0,
     j |-> 0, n_reevaluated |-> 0, pop |-> <<>>,
     fitnesses |-> <<>>, offspring |-> <<>>, record |-> <<>>,
     freq_history |-> <<>>, ranked_final |-> <<>>, winner |-> None_]

----------------------------------------------------------------------------
(* GameTheoryEngine.__init__ *)

Init ==
    \E cfg \in Configs :
        /\ games = [i \in 1..Len(cfg.games) |->
                      [name |-> cfg.games[i].name,
                       game |-> from_config(cfg.games[i].data)]]
        /\ strategy_names = cfg.strategies
        /\ default_rounds = IF cfg.default_rounds = <<>>
                            THEN FALLBACK_DEFAULT_ROUNDS
                            ELSE cfg.default_rounds[1]
        /\ pc = "idle"
        /\ call = [op |-> "", args |-> <<>>]
        /\ frame = NoFrame
        /\ round_num = 0
        /\ p1_moves = <<>> /\ p2_moves = <<>> /\ move_history = <<>>
        /\ p1_move = None_ /\ p2_move = None_
        /\ p1_score = 0 /\ p2_score = 0
        /\ err = ""
        /\ ret = NoRet
        /\ obs = NoObs
        /\ tour = NoTour
        /\ evo = NoEvo

\* an exception leaves the operation
Raise(kind) == pc' = "raised" /\ err' = kind

\* the locals a match starts from, and the head of its for loop
StartLoop(fr) ==
    /\ frame' = fr
    /\ p1_moves' = <<>> /\ p2_moves' = <<>> /\ move_history' = <<>>
    /\ p1_score' = 0 /\ p2_score' = 0
    /\ p1_move' = None_ /\ p2_move' = None_
    /\ round_num' = IF fr.rounds >= 1 THEN 1 ELSE 0
    /\ pc' = IF fr.rounds >= 1 THEN "decide_p1" ELSE "finish"
    /\ err' = ""

----------------------------------------------------------------------------
(* engine.py: the operations *)

Min(a, b) == IF a <= b THEN a ELSE b
Max(a, b) == IF a >= b THEN a ELSE b

\* GameTheoryEngine._play_match up to the head of its loop
_play_match(strat1_name, strat2_name, game_name, rounds, noise) ==
    IF ~HasGame(game_name)
    THEN Raise("UnknownGame") /\ UNCHANGED <<frame, loopVars>>
    ELSE IF ~InSeq(strat1_name, strategy_names)
            \/ ~InSeq(strat2_name, strategy_names)
    THEN Raise("StrategyNotConfigured") /\ UNCHANGED <<frame, loopVars>>
    ELSE IF _get_strategy(strat1_name).raised # ""
    THEN Raise(_get_strategy(strat1_name).raised)
         /\ UNCHANGED <<frame, loopVars>>
    ELSE IF _get_strategy(strat2_name).raised # ""
    THEN Raise(_get_strategy(strat2_name).raised)
         /\ UNCHANGED <<frame, loopVars>>
    ELSE StartLoop([op |-> "_play_match", game_name |-> game_name,
                    mode |-> 0,
                    strat1 |-> _get_strategy(strat1_name).strat,
                    strat2 |-> _get_strategy(strat2_name).strat,
                    rounds |-> rounds, noise |-> noise])

\* a call of _play_match
PlayMatchCall(strat1_name, strat2_name, game_name, rounds, noise) ==
    /\ call' = [op |-> "_play_match",
                args |-> [strat1_name |-> strat1_name,
                          strat2_name |-> strat2_name,
                          game_name |-> game_name, rounds |-> rounds,
                          noise |-> noise]]
    /\ _play_match(strat1_name, strat2_name, game_name, rounds, noise)
    /\ UNCHANGED <<simVars, engineVars, ret, obs>>

\* repeated_match's own lines: the defaulting of rounds and of noise
repeated_rounds(rounds) == IF rounds = 0 THEN REPEATED_DEFAULT_ROUNDS ELSE rounds
repeated_noise(noise) == Max(0, Min(NOISE_MAX, noise))

\* GameTheoryEngine.repeated_match up to the head of the match loop
RepeatedMatchCall(game_name, strat1_name, strat2_name, rounds, noise) ==
    /\ call' = [op |-> "repeated_match",
                args |-> [strat1_name |-> strat1_name,
                          strat2_name |-> strat2_name,
                          game_name |-> game_name, rounds |-> rounds,
                          noise |-> noise]]
    /\ _play_match(strat1_name, strat2_name, game_name,
                  repeated_rounds(rounds), repeated_noise(noise))
    /\ UNCHANGED <<simVars, engineVars, ret, obs>>

\* GameTheoryEngine.play_game up to the head of its loop; rounds is << >>
\* for None
play_game(game_name, mode, strat1_name, strat2_name, rounds) ==
    LET rounds_ == IF rounds = <<>> THEN default_rounds ELSE rounds[1]
        load1 == Truthy(strat1_name) /\ mode = 0
        load2 == Truthy(strat2_name) /\ mode \in {0, 1}
    IN
    IF ~HasGame(game_name)
    THEN Raise("UnknownGame") /\ UNCHANGED <<frame, loopVars>>
    ELSE IF load1 /\ _get_strategy(strat1_name).raised # ""
    THEN Raise(_get_strategy(strat1_name).raised)
         /\ UNCHANGED <<frame, loopVars>>
    ELSE IF load2 /\ _get_strategy(strat2_name).raised # ""
    THEN Raise(_get_strategy(strat2_name).raised)
         /\ UNCHANGED <<frame, loopVars>>
    ELSE IF mode = 0 /\ (~Truthy(strat1_name) \/ ~Truthy(strat2_name))
    THEN Raise("InvalidParameter") /\ UNCHANGED <<frame, loopVars>>
    ELSE IF mode = 1 /\ ~Truthy(strat2_name)
    THEN Raise("InvalidParameter") /\ UNCHANGED <<frame, loopVars>>
    ELSE IF mode \notin {0, 1, 2}
    THEN Raise("InvalidParameter") /\ UNCHANGED <<frame, loopVars>>
    ELSE StartLoop([op |-> "play_game", game_name |-> game_name,
                    mode |-> mode,
                    strat1 |-> IF load1 THEN _get_strategy(strat1_name).strat
                               ELSE None_,
                    strat2 |-> IF load2 THEN _get_strategy(strat2_name).strat
                               ELSE None_,
                    rounds |-> rounds_, noise |-> 0])

\* a call of play_game
PlayGameCall(game_name, mode, strat1_name, strat2_name, rounds) ==
    /\ call' = [op |-> "play_game",
                args |-> [strat1_name |-> strat1_name,
                          strat2_name |-> strat2_name,
                          game_name |-> game_name, rounds |-> rounds,
                          mode |-> mode]]
    /\ play_game(game_name, mode, strat1_name, strat2_name, rounds)
    /\ UNCHANGED <<simVars, engineVars, ret, obs>>

----------------------------------------------------------------------------
(* The match loop of _play_match and of play_game *)

\* the history handed to player 1's decision: P2's moves so far
OppHistoryP1 == p2_moves
\* as OppHistoryP2, had player 1's move been appended before player 2 decides
OppHistoryP2Late == Append(p1_moves, p1_move)

\* the history handed to player 2's decision: P1's moves so far
OppHistoryP2 == p1_moves

\* as MoreRounds, for a loop over range(1, rounds)
MoreRoundsShort == round_num + 1 < frame.rounds

\* range(1, rounds + 1) has a value after round_num
MoreRounds == round_num < frame.rounds

\* a decision taken on an empty history whatever the opponent has played
plain_decide_ignores_history(strat, opp_history) ==
    [raised |-> "", move |-> decide(strat, <<>>),
     chosen |-> decide(strat, <<>>), fired |-> FALSE,
     decided |-> 1, drew |-> 0]

\* strat.decide(history) as play_game calls it, without the noise step
plain_decide(strat, opp_history) ==
    [raised |-> "", move |-> decide(strat, opp_history),
     chosen |-> decide(strat, opp_history), fired |-> FALSE,
     decided |-> 1, drew |-> 0]

\* the decision call of the running loop
loop_decide(strat, opp_history, draw) ==
    IF frame.op = "_play_match"
    THEN _noisy_decide(strat, opp_history, frame.noise, draw)
    ELSE plain_decide(strat, opp_history)

\* player 1's strategy decides
DecideP1 ==
    /\ pc = "decide_p1"
    /\ frame.strat1 # None_
    /\ \E draw \in Draws :
         LET d == loop_decide(frame.strat1, OppHistoryP1, draw) IN
         IF d.raised # ""
         THEN Raise(d.raised) /\ UNCHANGED <<p1_move, obs>>
         ELSE /\ p1_move' = d.move
              /\ obs' = [obs EXCEPT !.seen1 = OppHistoryP1,
                                    !.chosen1 = d.chosen,
                                    !.fired1 = d.fired,
                                    !.n_decide = @ + d.decided,
                                    !.n_random = @ + d.drew]
              /\ pc' = "decide_p2"
              /\ UNCHANGED err
    /\ UNCHANGED <<simVars, engineVars, call, frame, round_num, p1_moves, p2_moves,
                   move_history, p2_move, p1_score, p2_score, ret>>

\* _get_human_move for player 1: the prompt repeats until the input is valid
HumanP1 ==
    /\ pc = "decide_p1"
    /\ frame.strat1 = None_
    /\ \E typed \in TypedInputs :
         /\ ~validate_move_raises(GameOf(frame.game_name), upper(typed))
         /\ p1_move' = upper(typed)
    /\ obs' = [obs EXCEPT !.n_human = @ + 1]
    /\ pc' = "decide_p2"
    /\ UNCHANGED <<simVars, engineVars, call, frame, round_num, p1_moves, p2_moves,
                   move_history, p2_move, p1_score, p2_score, err, ret>>

\* player 2's strategy decides
DecideP2 ==
    /\ pc = "decide_p2"
    /\ frame.strat2 # None_
    /\ \E draw \in Draws :
         LET d == loop_decide(frame.strat2, OppHistoryP2, draw) IN
         IF d.raised # ""
         THEN Raise(d.raised) /\ UNCHANGED <<p2_move, obs>>
         ELSE /\ p2_move' = d.move
              /\ obs' = [obs EXCEPT !.seen2 = OppHistoryP2,
                                    !.chosen2 = d.chosen,
                                    !.fired2 = d.fired,
                                    !.n_decide = @ + d.decided,
                                    !.n_random = @ + d.drew]
              /\ pc' = "record"
              /\ UNCHANGED err
    /\ UNCHANGED <<simVars, engineVars, call, frame, round_num, p1_moves, p2_moves,
                   move_history, p1_move, p1_score, p2_score, ret>>

\* _get_human_move for player 2
HumanP2 ==
    /\ pc = "decide_p2"
    /\ frame.strat2 = None_
    /\ \E typed \in TypedInputs :
         /\ ~validate_move_raises(GameOf(frame.game_name), upper(typed))
         /\ p2_move' = upper(typed)
    /\ obs' = [obs EXCEPT !.n_human = @ + 1]
    /\ pc' = "record"
    /\ UNCHANGED <<simVars, engineVars, call, frame, round_num, p1_moves, p2_moves,
                   move_history, p1_move, p1_score, p2_score, err, ret>>

\* the rest of the round: the moves are recorded, then the payoff is looked
\* up and added, then the loop goes on or ends
RecordRound ==
    /\ pc = "record"
    /\ p1_moves' = Append(p1_moves, p1_move)
    /\ p2_moves' = Append(p2_moves, p2_move)
    /\ move_history' = Append(move_history, <<p1_move, p2_move>>)
    /\ obs' = [obs EXCEPT !.n_payoff = @ + 1]
    /\ LET payoff == get_payoff(GameOf(frame.game_name), p1_move, p2_move) IN
       IF payoff.raised # ""
       THEN Raise(payoff.raised) /\ UNCHANGED <<p1_score, p2_score, round_num>>
       ELSE /\ p1_score' = p1_score + payoff.payoff[1]
            /\ p2_score' = p2_score + payoff.payoff[2]
            /\ IF MoreRounds
               THEN round_num' = round_num + 1 /\ pc' = "decide_p1"
               ELSE round_num' = round_num /\ pc' = "finish"
            /\ UNCHANGED err
    /\ UNCHANGED <<simVars, engineVars, call, frame, p1_move, p2_move, ret>>

\* the return of the scores and of the move trace
Finish ==
    /\ pc = "finish"
    /\ pc' = "returned"
    /\ ret' = [kind |-> "match", move |-> None_, payoff |-> <<0, 0>>]
    /\ UNCHANGED <<simVars, engineVars, call, frame, loopVars, err, obs>>

----------------------------------------------------------------------------
(* Direct calls of the two helpers *)

\* a call of _noisy_decide on a fresh instance of a registered strategy
NoisyDecideCall(strat_name, opp_history, noise, draw) ==
    /\ call' = [op |-> "_noisy_decide",
                args |-> [strat |-> strat_name, opp_history |-> opp_history,
                          noise |-> noise, draw |-> draw]]
    /\ LET d == _noisy_decide(strat_name, opp_history, noise, draw) IN
       /\ obs' = [obs EXCEPT !.chosen1 = d.chosen, !.fired1 = d.fired,
                             !.seen1 = opp_history,
                             !.n_decide = @ + d.decided,
                             !.n_random = @ + d.drew]
       /\ IF d.raised # ""
          THEN Raise(d.raised) /\ UNCHANGED ret
          ELSE /\ pc' = "returned"
               /\ ret' = [kind |-> "move", move |-> d.move,
                          payoff |-> <<0, 0>>]
               /\ UNCHANGED err
    /\ UNCHANGED <<simVars, engineVars, frame, loopVars>>

\* a call of Game.get_payoff on a loaded game
GetPayoffCall(game_name, move_a, move_b) ==
    /\ HasGame(game_name)
    /\ call' = [op |-> "get_payoff",
                args |-> [game_name |-> game_name, p1_move |-> move_a,
                          p2_move |-> move_b]]
    /\ LET payoff == get_payoff(GameOf(game_name), move_a, move_b) IN
       IF payoff.raised # ""
       THEN Raise(payoff.raised) /\ UNCHANGED ret
       ELSE /\ pc' = "returned"
            /\ ret' = [kind |-> "payoff", move |-> None_,
                       payoff |-> payoff.payoff]
            /\ UNCHANGED err
    /\ UNCHANGED <<simVars, engineVars, frame, loopVars, obs>>

----------------------------------------------------------------------------

(* engine.py: round_robin_tournament *)

Front(s) == SubSeq(s, 1, Len(s) - 1)

RECURSIVE zero_scores(_)
\* {s: 0.0 for s in strats}: one entry per distinct name, in the order the
\* names first occur
zero_scores(strats) ==
    IF strats = <<>> THEN <<>>
    ELSE LET rest == zero_scores(Front(strats)) IN
         IF \E i \in 1..Len(rest) : rest[i].name = Last(strats)
         THEN rest
         ELSE Append(rest, [name |-> Last(strats), score |-> 0])

\* the matches of a league in which no strategy meets itself
tournament_pairings_no_self_play(strats, repeats) ==
    SelectSeq([k \in 1..(Max(repeats, 0) * Len(strats) * Len(strats)) |->
                 <<strats[(((k - 1) \div Len(strats)) % Len(strats)) + 1],
                   strats[((k - 1) % Len(strats)) + 1]>>],
              LAMBDA p : p[1] # p[2])

\* the (s1, s2) of the three nested loops, in the order they are played:
\* for rep in range(repeats): for s1 in strats: for s2 in strats
tournament_pairings(strats, repeats) ==
    [k \in 1..(Max(repeats, 0) * Len(strats) * Len(strats)) |->
       <<strats[(((k - 1) \div Len(strats)) % Len(strats)) + 1],
         strats[((k - 1) % Len(strats)) + 1]>>]

\* the second seat's score credited in place of the first seat's
add_second_seat_score(total_scores, s1, scores) ==
    [i \in DOMAIN total_scores |->
       IF total_scores[i].name = s1
       THEN [total_scores[i] EXCEPT !.score = @ + scores[2]]
       ELSE total_scores[i]]

\* total_scores[s1] += res["scores"][0]
add_first_seat_score(total_scores, s1, scores) ==
    [i \in DOMAIN total_scores |->
       IF total_scores[i].name = s1
       THEN [total_scores[i] EXCEPT !.score = @ + scores[1]]
       ELSE total_scores[i]]

\* an entry placed in front of the entries of equal score
insert_before_equal(ranked, item) ==
    LET n == Cardinality({i \in 1..Len(ranked) : ranked[i].score > item.score})
    IN SubSeq(ranked, 1, n) \o <<item>> \o SubSeq(ranked, n + 1, Len(ranked))

\* an entry placed behind every entry whose score is at least its own
insert_after_equal(ranked, item) ==
    LET n == Cardinality({i \in 1..Len(ranked) : ranked[i].score >= item.score})
    IN SubSeq(ranked, 1, n) \o <<item>> \o SubSeq(ranked, n + 1, Len(ranked))

RECURSIVE sorted_reverse(_)
\* sorted(items, key=lambda x: x[1], reverse=True): descending by score,
\* entries of equal score keeping the order they had in items
sorted_reverse(items) ==
    IF items = <<>> THEN <<>>
    ELSE insert_after_equal(sorted_reverse(Front(items)), Last(items))

\* round_robin_tournament from the head of its loops: the next match is
\* played, or the totals are ranked and returned
tournament_continue(t) ==
    LET pairings == tournament_pairings(strategy_names, t.repeats) IN
    IF t.k <= Len(pairings)
    THEN /\ tour' = [t EXCEPT !.n_matches = @ + 1]
         /\ _play_match(pairings[t.k][1], pairings[t.k][2], t.game_name,
                        t.rounds_per_match, t.noise)
         /\ obs' = NoObs
         /\ UNCHANGED ret
    ELSE /\ tour' = [t EXCEPT !.ranking = sorted_reverse(t.total_scores)]
         /\ pc' = "returned"
         /\ ret' = [kind |-> "tournament", move |-> None_, payoff |-> <<0, 0>>]
         /\ UNCHANGED <<frame, loopVars, err, obs>>

\* a call of round_robin_tournament
RoundRobinCall(game_name, rounds_per_match, repeats, noise) ==
    /\ call' = [op |-> "round_robin_tournament",
                args |-> [game_name |-> game_name,
                          rounds_per_match |-> rounds_per_match,
                          repeats |-> repeats, noise |-> noise]]
    /\ tournament_continue(
         [game_name |-> game_name, rounds_per_match |-> rounds_per_match,
          repeats |-> repeats, noise |-> noise, k |-> 1,
          total_scores |-> zero_scores(strategy_names), n_matches |-> 0,
          log |-> <<>>, ranking |-> <<>>])
    /\ UNCHANGED <<engineVars, evo>>

\* a match of the tournament has returned: its first-seat score is added to
\* s1's total and the loops go on
TournamentAccumulate ==
    /\ pc = "returned" /\ call.op = "round_robin_tournament"
    /\ ret.kind = "match"
    /\ LET pairing == tournament_pairings(strategy_names, tour.repeats)[tour.k]
           scores == <<p1_score, p2_score>>
       IN tournament_continue(
            [tour EXCEPT !.total_scores =
                            add_first_seat_score(@, pairing[1], scores),
                         !.log = Append(@, [s1 |-> pairing[1],
                                            s2 |-> pairing[2],
                                            scores |-> scores]),
                         !.k = @ + 1])
    /\ UNCHANGED <<engineVars, call, evo>>

----------------------------------------------------------------------------

(* engine.py: evolutionary_simulation *)

RECURSIVE play_rounds(_, _, _, _, _, _)
\* the rounds of _play_match under a noise that flips no move (noise <= 0,
\* which draws nothing, or noise out of range, which raises): the scores
\* after `left` more rounds from the histories and scores in st
play_rounds(strat1, strat2, game, noise, left, st) ==
    IF left <= 0 THEN [raised |-> "", scores |-> st.scores]
    ELSE LET d1 == _noisy_decide(strat1, st.p2_moves, noise, 0)
             d2 == _noisy_decide(strat2, st.p1_moves, noise, 0)
             payoff == get_payoff(game, d1.move, d2.move)
         IN IF d1.raised # "" THEN [raised |-> d1.raised, scores |-> st.scores]
            ELSE IF d2.raised # ""
            THEN [raised |-> d2.raised, scores |-> st.scores]
            ELSE IF payoff.raised # ""
            THEN [raised |-> payoff.raised, scores |-> st.scores]
            ELSE play_rounds(strat1, strat2, game, noise, left - 1,
                   [p1_moves |-> Append(st.p1_moves, d1.move),
                    p2_moves |-> Append(st.p2_moves, d2.move),
                    scores |-> <<st.scores[1] + payoff.payoff[1],
                                 st.scores[2] + payoff.payoff[2]>>])

\* res = self._play_match(strat_name, opp_name, game_name, short_rounds,
\* noise, verbose=False) as eval_fitness calls it: what it raises, or its
\* scores
match_result(strat1_name, strat2_name, game_name, rounds, noise) ==
    IF ~HasGame(game_name)
    THEN [raised |-> "UnknownGame", scores |-> <<0, 0>>]
    ELSE IF ~InSeq(strat1_name, strategy_names)
            \/ ~InSeq(strat2_name, strategy_names)
    THEN [raised |-> "StrategyNotConfigured", scores |-> <<0, 0>>]
    ELSE IF _get_strategy(strat1_name).raised # ""
    THEN [raised |-> _get_strategy(strat1_name).raised, scores |-> <<0, 0>>]
    ELSE IF _get_strategy(strat2_name).raised # ""
    THEN [raised |-> _get_strategy(strat2_name).raised, scores |-> <<0, 0>>]
    ELSE play_rounds(_get_strategy(strat1_name).strat,
                     _get_strategy(strat2_name).strat, GameOf(game_name),
                     noise, rounds,
                     [p1_moves |-> <<>>, p2_moves |-> <<>>,
                      scores |-> <<0, 0>>])

\* short_rounds = max(5, rounds_per_match // 10)
short_rounds(rounds_per_match) ==
    Max(MIN_SHORT_ROUNDS, rounds_per_match \div SHORT_ROUNDS_DIVISOR)

\* creator.Individual([idx]): one gene and a fitness without values; eval_gene
\* remembers the gene a valid fitness was computed for
Individual(gene) ==
    [gene |-> gene, valid |-> FALSE, fitness |-> 0, eval_gene |-> 0 - 1]

\* a fitness that survives the change of the gene
keep_fitness(ind) == ind

\* del ind.fitness.values
del_fitness(ind) ==
    [ind EXCEPT !.valid = FALSE, !.fitness = 0, !.eval_gene = 0 - 1]

\* ind.fitness.values = fit, for a fit computed on the gene fit.gene
set_fitness(ind, fit) ==
    [ind EXCEPT !.valid = TRUE, !.fitness = fit.fitness,
                !.eval_gene = fit.gene]

\* one pass of eval_fitness's loop over the n_opp sampled opponents, against
\* the opponent random.choice drew: what the match raises, or its first-seat
\* score; strat_list[individual[0]] raises IndexError past the list's end
eval_match(individual, opp, e) ==
    IF individual.gene + 1 \notin 1..Len(strategy_names)
    THEN [raised |-> "IndexError", score |-> 0]
    ELSE LET res == match_result(strategy_names[individual.gene + 1],
                                 strategy_names[opp], e.game_name,
                                 short_rounds(e.rounds_per_match), e.noise)
         IN [raised |-> res.raised, score |-> res.scores[1]]

\* an upper bound of mutation one past the last index
mutate_up_past_end(n_strats) == n_strats

\* toolbox.register("mutate", tools.mutUniformInt, low=0, up=n_strats - 1, ...)
mutate_up(n_strats) == n_strats - 1

\* a mating that copies ind2's gene into ind1 instead of swapping the two
cxUniform_copies_gene(ind1, ind2, draw) ==
    IF draw < MATE_INDPB
    THEN <<[ind1 EXCEPT !.gene = ind2.gene], ind2>>
    ELSE <<ind1, ind2>>

\* tools.cxUniform(ind1, ind2, indpb=0.5) on one-gene individuals: the genes
\* are swapped when the draw falls under indpb
cxUniform(ind1, ind2, draw) ==
    IF draw < MATE_INDPB
    THEN <<[ind1 EXCEPT !.gene = ind2.gene], [ind2 EXCEPT !.gene = ind1.gene]>>
    ELSE <<ind1, ind2>>

\* tools.mutUniformInt(individual, low, up, indpb=0.2) on a one-gene
\* individual: the gene becomes randint(low, up) when the draw falls under
\* indpb
mutUniformInt(individual, draw, new_gene) ==
    IF draw < MUTATE_INDPB THEN [individual EXCEPT !.gene = new_gene]
    ELSE individual

\* max(aspirants, key=attrgetter("fitness")) of tools.selTournament: the
\* first aspirant of maximal fitness
tournament_winner(pop, aspirants) ==
    LET first_max ==
          CHOOSE k \in 1..Len(aspirants) :
             /\ \A m \in 1..Len(aspirants) :
                   pop[aspirants[m]].fitness <= pop[aspirants[k]].fitness
             /\ \A m \in 1..(k - 1) :
                   pop[aspirants[m]].fitness < pop[aspirants[k]].fitness
    IN pop[aspirants[first_max]]

\* no individual is taken for re-evaluation
invalid_ind_none(pop) == <<>>

\* invalid_ind = [ind for ind in pop if not ind.fitness.valid], as positions
invalid_ind(pop) ==
    SelectSeq([k \in 1..Len(pop) |-> k], LAMBDA k : ~pop[k].valid)

\* idx_counts.count(i) for i in range(n_strats)
idx_counts(pop) ==
    [i \in 1..Len(strategy_names) |->
       Cardinality({k \in 1..Len(pop) : pop[k].gene = i - 1})]

\* the name of the last entry of the ranking
last_ranked(ranked_final) == ranked_final[Len(ranked_final)].name

\* winner = ranked_final[0][0]
winner_of(ranked_final) == ranked_final[1].name

\* the head of `for gen in range(generations)`: the next generation's
\* evaluation, or after the last one the re-evaluation and the ranking
generation_head(e) ==
    /\ evo' = [e EXCEPT !.i = 1, !.fitnesses = <<>>, !.score = 0, !.j = 1]
    /\ pc' = IF e.gen < e.generations
             THEN (IF e.pop = <<>> THEN "evo_record" ELSE "evo_evaluate")
             ELSE (IF invalid_ind(e.pop) = <<>> THEN "evo_rank"
                   ELSE "evo_reevaluate")

\* a call of evolutionary_simulation up to the head of its generation loop;
\* genes are the indices attr_idx draws for the initial population
EvolutionCall(game_name, pop_size, generations, rounds_per_match, noise, genes) ==
    LET e == [game_name |-> game_name, pop_size |-> pop_size,
              generations |-> generations,
              rounds_per_match |-> rounds_per_match, noise |-> noise,
              gen |-> 0, i |-> 0, score |-> 0, j |-> 0, n_reevaluated |-> 0,
              pop |-> <<>>,
              fitnesses |-> <<>>, offspring |-> <<>>, record |-> <<>>,
              freq_history |-> <<>>, ranked_final |-> <<>>,
              winner |-> None_]
    IN
    /\ call' = [op |-> "evolutionary_simulation",
                args |-> [game_name |-> game_name, pop_size |-> pop_size,
                          generations |-> generations,
                          rounds_per_match |-> rounds_per_match,
                          noise |-> noise]]
    /\ IF pop_size >= 1 /\ Len(strategy_names) = 0
       THEN \* random.randint(0, -1)
            Raise("ValueError") /\ evo' = e
       ELSE /\ generation_head(
                 [e EXCEPT !.pop = [k \in 1..Max(pop_size, 0) |->
                                      Individual(genes[k])]])
            /\ UNCHANGED err
    /\ UNCHANGED <<engineVars, frame, loopVars, ret, obs, tour>>

\* the fitnesses of a population once every evaluation has returned
assign_fitnesses(pop, positions, fitnesses) ==
    [k \in 1..Len(pop) |->
       IF \E j \in 1..Len(positions) : positions[j] = k
       THEN set_fitness(pop[k],
              fitnesses[CHOOSE j \in 1..Len(positions) : positions[j] = k])
       ELSE pop[k]]

\* fitnesses = list(map(toolbox.evaluate, pop)), one match of eval_fitness
\* at a time; the score is kept as the sum over the n_opp matches, n_opp
\* times the returned score / n_opp; after the last individual
\* `ind.fitness.values = fit` for all of them
Evaluate ==
    /\ pc = "evo_evaluate"
    /\ \E opp \in 1..Len(strategy_names) :
         LET res == eval_match(evo.pop[evo.i], opp, evo)
             fs == Append(evo.fitnesses,
                          [fitness |-> evo.score + res.score,
                           gene |-> evo.pop[evo.i].gene])
         IN IF res.raised # "" THEN Raise(res.raised) /\ UNCHANGED evo
            ELSE /\ IF evo.j < N_OPP
                    THEN /\ evo' = [evo EXCEPT !.score = @ + res.score,
                                               !.j = @ + 1]
                         /\ pc' = pc
                    ELSE IF evo.i < Len(evo.pop)
                    THEN /\ evo' = [evo EXCEPT !.fitnesses = fs, !.i = @ + 1,
                                               !.score = 0, !.j = 1]
                         /\ pc' = pc
                    ELSE /\ evo' = [evo EXCEPT
                                      !.pop = assign_fitnesses(@,
                                                [k \in 1..Len(@) |-> k], fs),
                                      !.fitnesses = <<>>, !.i = 1,
                                      !.score = 0, !.j = 1]
                         /\ pc' = "evo_record"
                 /\ UNCHANGED err
    /\ UNCHANGED <<engineVars, call, frame, loopVars, ret, obs, tour>>

\* the largest fitness of a population
max_fitness(pop) ==
    CHOOSE f \in {pop[k].fitness : k \in 1..Len(pop)} :
       \A k \in 1..Len(pop) : pop[k].fitness <= f

\* record = stats.compile(pop) and the frequency snapshot; np.max of no
\* values raises ValueError
Record ==
    /\ pc = "evo_record"
    /\ IF evo.pop = <<>>
       THEN Raise("ValueError") /\ UNCHANGED evo
       ELSE /\ evo' = [evo EXCEPT
                         !.record = <<max_fitness(evo.pop)>>,
                         !.freq_history =
                            Append(@, [counts |-> idx_counts(evo.pop),
                                       pop_size |-> evo.pop_size]),
                         !.i = 1, !.offspring = <<>>]
            /\ pc' = "evo_select"
            /\ UNCHANGED err
    /\ UNCHANGED <<engineVars, call, frame, loopVars, ret, obs, tour>>

\* offspring = toolbox.select(pop, len(pop)), then toolbox.clone of each: one
\* tournament of tournsize random aspirants per place
Select ==
    /\ pc = "evo_select"
    /\ \E aspirants \in [1..TOURNSIZE -> 1..Len(evo.pop)] :
         LET chosen == Append(evo.offspring,
                              tournament_winner(evo.pop, aspirants))
         IN /\ evo' = [evo EXCEPT !.offspring = chosen,
                                  !.i = IF evo.i < Len(evo.pop) THEN @ + 1
                                        ELSE 1]
            /\ pc' = IF evo.i < Len(evo.pop) THEN pc
                     ELSE IF Len(chosen) >= 2 THEN "evo_crossover"
                     ELSE "evo_mutate"
    /\ UNCHANGED <<engineVars, call, frame, loopVars, ret, obs, tour, err>>

\* one (child1, child2) of zip(offspring[::2], offspring[1::2]): with
\* probability 0.5 the two are mated and both fitnesses deleted
Crossover ==
    /\ pc = "evo_crossover"
    /\ \E draw \in Draws, swap_draw \in Draws :
         LET c1 == 2 * evo.i - 1
             c2 == 2 * evo.i
             mated == cxUniform(evo.offspring[c1], evo.offspring[c2],
                                swap_draw)
             children == IF draw < CXPB
                         THEN <<del_fitness(mated[1]), del_fitness(mated[2])>>
                         ELSE <<evo.offspring[c1], evo.offspring[c2]>>
         IN /\ evo' = [evo EXCEPT
                         !.offspring = [@ EXCEPT ![c1] = children[1],
                                                 ![c2] = children[2]],
                         !.i = IF 2 * (evo.i + 1) <= Len(evo.offspring)
                               THEN @ + 1 ELSE 1]
            /\ pc' = IF 2 * (evo.i + 1) <= Len(evo.offspring) THEN pc
                     ELSE "evo_mutate"
    /\ UNCHANGED <<engineVars, call, frame, loopVars, ret, obs, tour, err>>

\* one mutant of `for mutant in offspring`: with probability 0.1 it is
\* mutated and its fitness deleted; after the last one pop[:] = offspring
\* and the generation loop goes on
Mutate ==
    /\ pc = "evo_mutate"
    /\ \E draw \in Draws, gene_draw \in Draws,
          new_gene \in 0..mutate_up(Len(strategy_names)) :
         LET mutant == evo.offspring[evo.i]
             mutated == IF draw < MUTPB
                        THEN del_fitness(mutUniformInt(mutant, gene_draw,
                                                       new_gene))
                        ELSE mutant
             offspring == [evo.offspring EXCEPT ![evo.i] = mutated]
         IN IF evo.i < Len(evo.offspring)
            THEN /\ evo' = [evo EXCEPT !.offspring = offspring, !.i = @ + 1]
                 /\ pc' = pc
            ELSE generation_head([evo EXCEPT !.pop = offspring,
                                             !.offspring = <<>>,
                                             !.gen = @ + 1])
    /\ UNCHANGED <<engineVars, call, frame, loopVars, ret, obs, tour, err>>

\* fitnesses = list(map(toolbox.evaluate, invalid_ind)), one match of
\* eval_fitness at a time, and after the last individual
\* `ind.fitness.values = fit` for all of them
Reevaluate ==
    /\ pc = "evo_reevaluate"
    /\ \E opp \in 1..Len(strategy_names) :
         LET invalid == invalid_ind(evo.pop)
             ind == evo.pop[invalid[evo.i]]
             res == eval_match(ind, opp, evo)
             fs == Append(evo.fitnesses,
                          [fitness |-> evo.score + res.score,
                           gene |-> ind.gene])
         IN IF res.raised # "" THEN Raise(res.raised) /\ UNCHANGED evo
            ELSE /\ IF evo.j < N_OPP
                    THEN /\ evo' = [evo EXCEPT !.score = @ + res.score,
                                               !.j = @ + 1]
                         /\ pc' = pc
                    ELSE IF evo.i < Len(invalid)
                    THEN /\ evo' = [evo EXCEPT !.fitnesses = fs, !.i = @ + 1,
                                               !.score = 0, !.j = 1]
                         /\ pc' = pc
                    ELSE /\ evo' = [evo EXCEPT
                                      !.pop = assign_fitnesses(@, invalid, fs),
                                      !.n_reevaluated = Len(invalid),
                                      !.fitnesses = <<>>, !.i = 1,
                                      !.score = 0, !.j = 1]
                         /\ pc' = "evo_rank"
                 /\ UNCHANGED err
    /\ UNCHANGED <<engineVars, call, frame, loopVars, ret, obs, tour>>

\* ranked_final, the winner and the return; ind.fitness.values[0] of a
\* fitness without values and ranked_final[0] of an empty ranking raise
\* IndexError
Rank ==
    /\ pc = "evo_rank"
    /\ LET ranked_final ==
             sorted_reverse([k \in 1..Len(evo.pop) |->
                [name |-> strategy_names[evo.pop[k].gene + 1],
                 score |-> evo.pop[k].fitness]])
       IN IF \E k \in 1..Len(evo.pop) : ~evo.pop[k].valid
          THEN Raise("IndexError") /\ UNCHANGED <<evo, ret>>
          ELSE IF evo.pop = <<>>
          THEN /\ Raise("IndexError")
               /\ evo' = [evo EXCEPT !.ranked_final = <<>>]
               /\ UNCHANGED ret
          ELSE /\ evo' = [evo EXCEPT !.ranked_final = ranked_final,
                                     !.winner = winner_of(ranked_final)]
               /\ pc' = "returned"
               /\ ret' = [kind |-> "evolution", move |-> None_,
                          payoff |-> <<0, 0>>]
               /\ UNCHANGED err
    /\ UNCHANGED <<engineVars, call, frame, loopVars, obs, tour>>

----------------------------------------------------------------------------

(* strategies: direct calls of decide *)

\* a call of decide on an instance of a registered strategy, as
\* strategies_test.py calls it
DecideCall(strat_name, opponent_history) ==
    /\ call' = [op |-> "decide",
                args |-> [strat |-> strat_name,
                          opponent_history |-> opponent_history]]
    /\ pc' = "returned"
    /\ ret' = [kind |-> "move", move |-> decide(strat_name, opponent_history),
               payoff |-> <<0, 0>>]
    /\ UNCHANGED <<simVars, engineVars, frame, loopVars, err, obs>>

----------------------------------------------------------------------------

HistoryArgs == SeqsUpTo({"C", "D"}, MaxHist)

\* a caller invokes _play_match
CallPlayMatch ==
    /\ pc = "idle"
    /\ \E s1 \in StrategyArgs, s2 \in StrategyArgs, g \in GameArgs,
          r \in RoundArgs, n \in NoiseArgs :
          PlayMatchCall(s1, s2, g, r, n)

\* a caller invokes repeated_match; a round count of 0, which the operation
\* replaces by 100 rounds, is tried on its default strategies without noise
CallRepeatedMatch ==
    /\ pc = "idle"
    /\ \E s1 \in StrategyArgs, s2 \in StrategyArgs, g \in GameArgs,
          r \in RoundArgs, n \in NoiseArgs :
          /\ r = 0 => (n = 0 /\ s1 = "TitForTat" /\ s2 = "AlwaysDefect")
          /\ RepeatedMatchCall(g, s1, s2, r, n)

\* a caller invokes play_game
CallPlayGame ==
    /\ pc = "idle"
    /\ \E g \in GameArgs, m \in ModeArgs, s1 \in OptStrategyArgs,
          s2 \in OptStrategyArgs, r \in {<<>>} \cup {<<k>> : k \in RoundArgs} :
          PlayGameCall(g, m, s1, s2, r)

\* a caller invokes _noisy_decide
CallNoisyDecide ==
    /\ pc = "idle"
    /\ \E s \in STRATEGY_REGISTRY, h \in HistoryArgs, n \in NoiseArgs,
          d \in Draws :
          NoisyDecideCall(s, h, n, d)

\* a caller invokes Game.get_payoff
CallGetPayoff ==
    /\ pc = "idle"
    /\ \E g \in GameArgs, a \in MoveArgs, b \in MoveArgs :
          GetPayoffCall(g, a, b)

\* a caller invokes round_robin_tournament; noise that can flip a move is
\* tried on the leagues of at most two strategies, one round and one repeat
CallRoundRobin ==
    /\ pc = "idle"
    /\ \E g \in GameArgs, r \in RoundArgs, reps \in RepeatArgs,
          n \in NoiseArgs :
          /\ (n > 0 /\ n <= NOISE_MAX) =>
                (r <= 1 /\ reps <= 1 /\ Len(strategy_names) <= 2)
          /\ RoundRobinCall(g, r, reps, n)

Next ==
    \/ CallPlayMatch
    \/ CallRoundRobin
    \/ TournamentAccumulate
    \/ CallRepeatedMatch
    \/ CallPlayGame
    \/ CallNoisyDecide
    \/ CallGetPayoff
    \/ DecideP1
    \/ HumanP1
    \/ DecideP2
    \/ HumanP2
    \/ RecordRound
    \/ Finish

Spec == Init /\ [][Next]_vars

\* a caller invokes evolutionary_simulation, with a noise that flips no move
\* and an engine of at most two strategies
CallEvolution ==
    /\ pc = "idle"
    /\ Len(strategy_names) <= 2
    /\ \E g \in GameArgs, p \in PopArgs, gens \in GenerationArgs,
          r \in EvoRoundArgs, n \in EvoNoiseArgs :
          IF p >= 1 /\ Len(strategy_names) = 0
          THEN EvolutionCall(g, p, gens, r, n, <<>>)
          ELSE \E genes \in [1..Max(p, 0) -> 0..(Len(strategy_names) - 1)] :
                  EvolutionCall(g, p, gens, r, n, genes)

NextEvolution ==
    \/ CallEvolution
    \/ Evaluate
    \/ Record
    \/ Select
    \/ Crossover
    \/ Mutate
    \/ Reevaluate
    \/ Rank

SpecEvolution == Init /\ [][NextEvolution]_vars

DecideHistories == SeqsUpTo({"C", "D"}, MaxDecideLen)

\* a test calls decide on a fresh instance of a registered strategy
CallDecide ==
    /\ pc = "idle"
    /\ \E s \in STRATEGY_REGISTRY, h \in DecideHistories : DecideCall(s, h)

\* the same strategy is asked again, the history grown by the opponent's
\* next move
DecideNext ==
    /\ pc = "returned" /\ call.op = "decide"
    /\ Len(call.args.opponent_history) < MaxDecideLen
    /\ \E m \in {"C", "D"} :
          DecideCall(call.args.strat, Append(call.args.opponent_history, m))

NextStrategies ==
    \/ CallDecide
    \/ DecideNext

SpecStrategies == Init /\ [][NextStrategies]_vars

----------------------------------------------------------------------------
(* Properties *)

\* one player's moves in a move trace
Column(history, seat) == [k \in 1..Len(history) |-> history[k][seat]]

ValidIn(game, move) == InSeq(move, game.valid_actions)

\* both seats are strategies: _play_match, and play_game in mode 0
BothStrategies == frame.op # "" /\ frame.strat1 # None_ /\ frame.strat2 # None_

\* C1: in round k of a match between two strategies, player 1's strategy
\* was given exactly player 2's recorded moves of rounds 1..k-1, oldest
\* first, and player 2's strategy exactly player 1's recorded moves of
\* rounds 1..k-1: no decision sees a move of round k.
C1_DecisionsUseStartOfRoundHistories ==
    BothStrategies =>
      /\ pc \in {"decide_p2", "record"} =>
           /\ round_num \in 1..frame.rounds
           /\ Len(move_history) = round_num - 1
           /\ obs.seen1 = Column(move_history, 2)
      /\ pc = "record" => obs.seen2 = Column(move_history, 1)

\* C1 witness: round 3 of a noisy _play_match in which player 1's move was
\* flipped and both players have decided
C1_Witness ==
    /\ pc = "record" /\ frame.op = "_play_match" /\ round_num = 3
    /\ obs.fired1 /\ Len(obs.seen2) = 2 /\ Len(obs.seen1) = 2

RECURSIVE SumPayoffs(_, _)
\* the component-wise sum of get_payoff over a move trace
SumPayoffs(game, history) ==
    IF history = <<>> THEN <<0, 0>>
    ELSE LET rest == SumPayoffs(game, SubSeq(history, 1, Len(history) - 1))
             pay == get_payoff(game, Last(history)[1], Last(history)[2])
         IN  <<rest[1] + pay.payoff[1], rest[2] + pay.payoff[2]>>

MatchReturned == pc = "returned" /\ ret.kind = "match"

\* C2: a match that returns after being asked for n rounds (n a count,
\* n >= 0) returns a trace of exactly n move pairs, and its two scores are
\* the component-wise sums of get_payoff over the recorded pairs.
C2_TraceLengthAndScores ==
    (MatchReturned /\ frame.rounds >= 0) =>
      /\ Len(move_history) = frame.rounds
      /\ \A k \in 1..Len(move_history) :
            get_payoff(GameOf(frame.game_name), move_history[k][1],
                       move_history[k][2]).raised = ""
      /\ <<p1_score, p2_score>> =
            SumPayoffs(GameOf(frame.game_name), move_history)

\* C2 witness: a returned 3-round noisy match with a flipped move in its
\* last round and unequal scores
C2_Witness ==
    /\ MatchReturned /\ frame.rounds = 3 /\ Len(move_history) = 3
    /\ obs.fired1 /\ p1_score # p2_score /\ p1_score > 0

TFTvsAllD ==
    /\ frame.op # "" /\ frame.game_name = "PD" /\ frame.noise = 0
    /\ frame.mode = 0
    /\ frame.strat1 = "TitForTat" /\ frame.strat2 = "AlwaysDefect"

\* C3: TitForTat against AlwaysDefect on the Prisoner's Dilemma without
\* noise over n >= 1 rounds plays (C,D) and then n-1 times (D,D), for the
\* scores (n-1, 5+(n-1)); over 2 rounds [(C,D),(D,D)] and (1,6).
C3_TitForTatVsAlwaysDefect ==
    (MatchReturned /\ TFTvsAllD /\ frame.rounds >= 1) =>
      /\ move_history = [k \in 1..frame.rounds |->
                           IF k = 1 THEN <<"C", "D">> ELSE <<"D", "D">>]
      /\ <<p1_score, p2_score>> = <<frame.rounds - 1, 5 + (frame.rounds - 1)>>

\* C3 witness: the 2-round play_game of the test has returned (1, 6)
C3_Witness ==
    /\ MatchReturned /\ TFTvsAllD /\ call.op = "play_game"
    /\ frame.rounds = 2
    /\ move_history = <<<<"C", "D">>, <<"D", "D">>>>
    /\ <<p1_score, p2_score>> = <<1, 6>>

GetPayoffCalled == call.op = "get_payoff" /\ pc # "idle"

\* C4: get_payoff(a, b) fails with InvalidMove exactly when a or b is not
\* a valid action of the game, whatever the payoff table holds: an invalid
\* move never surfaces as a missing key.
C4_InvalidMoveBeforeLookup ==
    GetPayoffCalled =>
      LET game == GameOf(call.args.game_name)
          bad == \/ ~ValidIn(game, call.args.p1_move)
                 \/ ~ValidIn(game, call.args.p2_move)
      IN  /\ bad => (pc = "raised" /\ err = "InvalidMove")
          /\ ~bad => err # "InvalidMove"

\* C4 witness: an invalid move on a pair the table lacks was reported as
\* InvalidMove
C4_Witness ==
    /\ GetPayoffCalled /\ err = "InvalidMove"
    /\ call.args.p1_move = "X" /\ call.args.p2_move = "Invalid"
    /\ call.args.game_name = "XY"

\* C5 (as claimed): get_payoff(a, b) returns a defined payoff pair for all
\* a, b among the valid actions of any constructed game.
C5_Claimed_PayoffTableComplete ==
    GetPayoffCalled =>
      LET game == GameOf(call.args.game_name) IN
      (ValidIn(game, call.args.p1_move) /\ ValidIn(game, call.args.p2_move))
        => (pc = "returned" /\ ret.kind = "payoff")

\* C6 (as claimed): in a zero-noise match between registered strategies on
\* a loaded game every move a strategy returns is a valid action of that
\* game, and the match never fails with InvalidMove.
C6_Claimed_StrategiesUseGameLabels ==
    (BothStrategies /\ frame.noise = 0) =>
      /\ err # "InvalidMove"
      /\ pc \in {"decide_p2", "record"} =>
            ValidIn(GameOf(frame.game_name), p1_move)
      /\ pc = "record" => ValidIn(GameOf(frame.game_name), p2_move)

NoisyDecideCalled == call.op = "_noisy_decide" /\ pc # "idle"

\* C7: with noise 0, _noisy_decide returns the strategy's own move for
\* every strategy, history and draw, and every move of a zero-noise match
\* is the strategy's decision on the opponent's recorded moves.
C7_ZeroNoiseIsIdentity ==
    /\ (NoisyDecideCalled /\ call.args.noise = 0) =>
          /\ pc = "returned"
          /\ ret.move = decide(call.args.strat, call.args.opp_history)
    /\ (BothStrategies /\ frame.noise = 0) =>
          /\ pc \in {"decide_p2", "record"} =>
                p1_move = decide(frame.strat1, Column(move_history, 2))
          /\ pc = "record" =>
                p2_move = decide(frame.strat2, Column(move_history, 1))

\* C7 witness: a zero-noise call whose draw was 0 returned the move of
\* TitForTat on a history ending in D
C7_Witness ==
    /\ NoisyDecideCalled /\ call.args.noise = 0 /\ call.args.draw = 0
    /\ call.args.strat = "TitForTat" /\ call.args.opp_history = <<"C", "D">>
    /\ pc = "returned" /\ ret.move = "D"

OutOfRange(noise) == noise < 0 \/ noise > NOISE_MAX

\* C8: _noisy_decide with a noise outside [0, 0.2] fails with
\* InvalidParameter before the strategy decides and before a random draw.
C8_NoiseOutOfRangeRejectedFirst ==
    /\ (NoisyDecideCalled /\ OutOfRange(call.args.noise)) =>
          /\ pc = "raised" /\ err = "InvalidParameter"
          /\ obs.n_decide = 0 /\ obs.n_random = 0
    /\ (frame.op = "_play_match" /\ OutOfRange(frame.noise)) =>
          /\ pc \in {"decide_p1", "finish", "returned", "raised"}
          /\ pc = "raised" => err = "InvalidParameter"
          /\ pc = "returned" => frame.rounds <= 0
          /\ obs.n_decide = 0 /\ obs.n_random = 0

\* C8 witness: a call with a negative noise was rejected
C8_Witness ==
    /\ NoisyDecideCalled /\ call.args.noise < 0
    /\ pc = "raised" /\ err = "InvalidParameter" /\ obs.n_decide = 0

\* C9 (as claimed): repeated_match with a noise outside [0, 0.2] fails with
\* InvalidParameter: no strategy decides and no match is returned under a
\* substituted noise.
C9_Claimed_NoClampedNoise ==
    (call.op = "repeated_match" /\ OutOfRange(call.args.noise)) =>
      /\ obs.n_decide = 0
      /\ ~MatchReturned

\* the first action of a game, in declared order, other than a move
FirstOther(game, move) ==
    SelectSeq(game.valid_actions, LAMBDA a : a # move)[1]

\* C10 (as claimed): when the noise flip fires in a match on game G, the
\* played move is the first action of G.valid_actions other than the
\* strategy's chosen move, hence a valid action of G.  Stated for a chosen
\* move that is itself an action of G.
C10_Claimed_FlipWithinPlayedGame ==
    LET game == GameOf(frame.game_name) IN
    /\ (frame.op = "_play_match" /\ pc \in {"decide_p2", "record"}
        /\ obs.fired1 /\ ValidIn(game, obs.chosen1)) =>
          /\ ValidIn(game, p1_move)
          /\ p1_move = FirstOther(game, obs.chosen1)
    /\ (frame.op = "_play_match" /\ pc = "record" /\ obs.fired2
        /\ ValidIn(game, obs.chosen2)) =>
          /\ ValidIn(game, p2_move)
          /\ p2_move = FirstOther(game, obs.chosen2)

\* the round count a match operation was called with, when one was given
RequestedRounds ==
    IF call.op = "play_game" THEN call.args.rounds ELSE <<call.args.rounds>>

MatchOperation == call.op \in {"_play_match", "play_game", "repeated_match"}

\* C11 (as claimed): a match requested with a round count <= 0 fails with
\* InvalidParameter: no MatchResult is returned, and the match never runs
\* with another count in place of the requested one.
C11_Claimed_NonPositiveRoundsRejected ==
    (MatchOperation /\ RequestedRounds # <<>> /\ RequestedRounds[1] <= 0) =>
      /\ ~MatchReturned
      /\ frame.op # "" => frame.rounds = RequestedRounds[1]


----------------------------------------------------------------------------
(* round_robin_tournament *)

TournamentReturned == pc = "returned" /\ ret.kind = "tournament"

\* how many logged matches seated s1 first against s2
MatchesOf(s1, s2) ==
    Cardinality({k \in 1..Len(tour.log) :
                   tour.log[k].s1 = s1 /\ tour.log[k].s2 = s2})

\* C12: a returned round_robin_tournament over n strategies with r repeats
\* has run exactly r * n * n matches, r for every ordered pair (s1, s2) of
\* the list, self-play and both seat orders included, and its total_scores
\* has exactly n entries.
C12_MatchCountAndEntries ==
    TournamentReturned =>
      LET n == Len(strategy_names)
          r == Max(tour.repeats, 0)
      IN /\ tour.n_matches = r * n * n
         /\ Len(tour.log) = tour.n_matches
         /\ \A i \in 1..n, j \in 1..n :
              MatchesOf(strategy_names[i], strategy_names[j]) = r
         /\ Len(tour.total_scores) = n

\* C12 witness: 4 strategies and 1 repeat have returned after 16 matches of
\* 2 rounds with 4 totals
C12_Witness ==
    /\ TournamentReturned /\ Len(strategy_names) = 4 /\ tour.repeats = 1
    /\ tour.rounds_per_match = 2
    /\ tour.n_matches = 16 /\ Len(tour.total_scores) = 4

RECURSIVE SumFirstSeat(_, _)
\* the sum of the first-seat scores of the logged matches that seated s first
SumFirstSeat(log, s) ==
    IF log = <<>> THEN 0
    ELSE SumFirstSeat(Front(log), s)
         + (IF Last(log).s1 = s THEN Last(log).scores[1] ELSE 0)

IndexOf(name) == CHOOSE i \in 1..Len(strategy_names) : strategy_names[i] = name

\* C14: the ranking of a returned tournament is a permutation of the
\* total_scores entries in non-increasing order of score, and entries of
\* equal score stand in the order of their names in strategy_names.
C14_RankingStableDescending ==
    TournamentReturned =>
      /\ Len(tour.ranking) = Len(tour.total_scores)
      /\ \A i \in 1..Len(tour.total_scores) :
           Cardinality({j \in 1..Len(tour.ranking) :
                          tour.ranking[j] = tour.total_scores[i]}) = 1
      /\ \A a \in 1..Len(tour.ranking), b \in 1..Len(tour.ranking) :
           a < b =>
             /\ tour.ranking[a].score >= tour.ranking[b].score
             /\ tour.ranking[a].score = tour.ranking[b].score =>
                  IndexOf(tour.ranking[a].name) < IndexOf(tour.ranking[b].name)

\* C14 witness: a returned tournament whose ranking differs from the order
\* of the list and holds two entries of equal score below a higher one
C14_Witness ==
    /\ TournamentReturned /\ tour.ranking # tour.total_scores
    /\ \E a \in 1..Len(tour.ranking), b \in 1..Len(tour.ranking) :
         /\ 1 < a /\ a < b
         /\ tour.ranking[a].score = tour.ranking[b].score
         /\ tour.ranking[1].score > tour.ranking[a].score

\* C15 (as claimed): round_robin_tournament and evolutionary_simulation on an
\* empty strategy list fail with NoStrategiesAvailable and return nothing.
C15_Claimed_EmptyStrategyListRejected ==
    (/\ call.op \in {"round_robin_tournament", "evolutionary_simulation"}
     /\ strategy_names = <<>>
     /\ pc \in {"returned", "raised"}) =>
       pc = "raised" /\ err = "NoStrategiesAvailable"


----------------------------------------------------------------------------
(* evolutionary_simulation *)

EvolutionCalled == call.op = "evolutionary_simulation" /\ pc # "idle"
EvolutionReturned == pc = "returned" /\ ret.kind = "evolution"

RECURSIVE SumSeq(_)
\* the sum of a sequence of numbers
SumSeq(s) == IF s = <<>> THEN 0 ELSE SumSeq(Front(s)) + Last(s)

\* C16: in every generation of an evolutionary_simulation of pop_size >= 1
\* individuals over a non-empty strategy list, the population has exactly
\* pop_size individuals whose genes index the strategy list, and every
\* generation's snapshot holds one count per strategy, the counts adding up
\* to pop_size, so that the frequencies count / pop_size sum to 1.
C16_PopulationSizeAndFrequencies ==
    (EvolutionCalled /\ evo.pop_size >= 1 /\ strategy_names # <<>>) =>
      /\ Len(evo.pop) = evo.pop_size
      /\ \A k \in 1..Len(evo.pop) :
           evo.pop[k].gene \in 0..(Len(strategy_names) - 1)
      /\ pc \in {"evo_crossover", "evo_mutate"} =>
           Len(evo.offspring) = evo.pop_size
      /\ \A g \in 1..Len(evo.freq_history) :
           /\ Len(evo.freq_history[g].counts) = Len(strategy_names)
           /\ evo.freq_history[g].pop_size = evo.pop_size
           /\ SumSeq(evo.freq_history[g].counts) = evo.pop_size

\* C16 witness: a simulation of 2 individuals has returned after 2
\* generations whose snapshots differ
C16_Witness ==
    /\ EvolutionReturned /\ evo.pop_size = 2 /\ evo.gen = 2
    /\ Len(evo.freq_history) = 2
    /\ evo.freq_history[1].counts # evo.freq_history[2].counts

\* how many entries of a sequence equal x
CountOf(x, s) == Cardinality({k \in 1..Len(s) : s[k] = x})

\* the (name, fitness) entries of a population, in its order
Entries(pop) ==
    [k \in 1..Len(pop) |-> [name |-> strategy_names[pop[k].gene + 1],
                            score |-> pop[k].fitness]]

\* C17: when the final ranking is built every individual of the population
\* has a valid fitness, the invalidated ones having been re-evaluated, and
\* the returned final_ranking holds exactly pop_size entries, one per
\* individual; building it never fails on a missing fitness.
C17_FinalRankingCompleteAndValid ==
    EvolutionCalled =>
      /\ pc = "evo_rank" => \A k \in 1..Len(evo.pop) : evo.pop[k].valid
      /\ EvolutionReturned =>
           /\ Len(evo.ranked_final) = evo.pop_size
           /\ \A k \in 1..Len(evo.pop) :
                /\ evo.pop[k].valid
                /\ CountOf(Entries(evo.pop)[k], evo.ranked_final)
                     = CountOf(Entries(evo.pop)[k], Entries(evo.pop))
      /\ (pc = "raised" /\ evo.pop_size >= 1) => err # "IndexError"

\* C17 witness: a simulation of 2 individuals has returned after 2
\* generations, one individual having been re-evaluated for the ranking
C17_Witness ==
    /\ EvolutionReturned /\ evo.pop_size = 2 /\ evo.generations = 2
    /\ evo.n_reevaluated = 1 /\ Len(evo.ranked_final) = 2

\* C18: a valid fitness was computed on the individual's current gene, in
\* the population and among the offspring, and the fitnesses read for the
\* statistics, for the selection and for the final ranking are all valid.
C18_ValidFitnessIsOfCurrentGene ==
    EvolutionCalled =>
      /\ \A k \in 1..Len(evo.pop) :
           evo.pop[k].valid => evo.pop[k].eval_gene = evo.pop[k].gene
      /\ \A k \in 1..Len(evo.offspring) :
           evo.offspring[k].valid =>
             evo.offspring[k].eval_gene = evo.offspring[k].gene
      /\ (pc \in {"evo_record", "evo_select", "evo_rank"} \/ EvolutionReturned)
           => \A k \in 1..Len(evo.pop) : evo.pop[k].valid

\* C18 witness: among the offspring stands an individual without a valid
\* fitness whose gene no individual of the parent population carries, a gene
\* that mutation changed
C18_Witness ==
    /\ EvolutionCalled /\ pc = "evo_mutate"
    /\ \E k \in 1..Len(evo.offspring) :
         /\ ~evo.offspring[k].valid
         /\ \A m \in 1..Len(evo.pop) :
              evo.pop[m].gene # evo.offspring[k].gene

\* C19: the returned final ranking is in non-increasing order of fitness and
\* the winner is the name of its first entry, the strategy of an individual
\* of the final population whose fitness is maximal.
C19_RankingDescendingAndWinnerFirst ==
    EvolutionReturned =>
      /\ \A a \in 1..Len(evo.ranked_final), b \in 1..Len(evo.ranked_final) :
           a < b => evo.ranked_final[a].score >= evo.ranked_final[b].score
      /\ evo.winner = evo.ranked_final[1].name
      /\ \E k \in 1..Len(evo.pop) :
           /\ strategy_names[evo.pop[k].gene + 1] = evo.winner
           /\ \A m \in 1..Len(evo.pop) :
                evo.pop[m].fitness <= evo.pop[k].fitness

\* C19 witness: a returned ranking of two strategies of different fitness
\* whose winner is the second individual of the population
C19_Witness ==
    /\ EvolutionReturned /\ Len(evo.ranked_final) = 2
    /\ evo.ranked_final[1].score > evo.ranked_final[2].score
    /\ evo.ranked_final[1].name # evo.ranked_final[2].name
    /\ strategy_names[evo.pop[2].gene + 1] = evo.winner

\* C20 (as claimed): evolutionary_simulation with a population size <= 0 or
\* a generation count <= 0 fails with InvalidParameter, returns no ranking
\* or winner and fails with no other error.
C20_Claimed_NonPositiveSizesRejected ==
    (/\ EvolutionCalled
     /\ evo.pop_size <= 0 \/ evo.generations <= 0
     /\ pc \in {"returned", "raised"}) =>
       pc = "raised" /\ err = "InvalidParameter"


----------------------------------------------------------------------------
(* strategies *)

DecideReturned == call.op = "decide" /\ pc = "returned"

\* the history read up to its k-th move
Prefix(h, k) == SubSeq(h, 1, k)

\* C21: with D the defective-like and C the cooperative-like action,
\* GrimTrigger asked with a history that extends a history holding a D
\* answers D, whatever was appended, and asked with a history holding no D
\* answers C.
C21_GrimTriggerMonotonic ==
    (DecideReturned /\ call.args.strat = "GrimTrigger") =>
      LET h == call.args.opponent_history IN
      /\ (\E k \in 0..Len(h) : \E i \in 1..k : Prefix(h, k)[i] = "D")
            => ret.move = "D"
      /\ (\A i \in 1..Len(h) : h[i] # "D") => ret.move = "C"

\* C21 witness: GrimTrigger answered D on [C, D, C, C], two cooperations
\* after the defection
C21_Witness ==
    /\ DecideReturned /\ call.args.strat = "GrimTrigger"
    /\ call.args.opponent_history = <<"C", "D", "C", "C">>
    /\ ret.move = "D"


\* whether a history ends in two defections
EndsInTwoDefections(h) ==
    Len(h) >= 2 /\ h[Len(h) - 1] = "D" /\ h[Len(h)] = "D"

\* C22: ForgivingTitForTat answers C on the empty history and on a history
\* whose two most recent moves are both D, and the opponent's most recent
\* move otherwise; its answer differs from TitForTat's exactly on the
\* histories of length >= 2 that end in two D.
C22_ForgivingTitForTat ==
    (DecideReturned /\ call.args.strat = "ForgivingTitForTat") =>
      LET h == call.args.opponent_history IN
      /\ h = <<>> => ret.move = "C"
      /\ EndsInTwoDefections(h) => ret.move = "C"
      /\ (h # <<>> /\ ~EndsInTwoDefections(h)) => ret.move = h[Len(h)]
      /\ h = <<"D">> => ret.move = "D"
      /\ (ret.move # decide("TitForTat", h)) <=> EndsInTwoDefections(h)

\* C22 witness: ForgivingTitForTat answered C on [C, D, D], where TitForTat
\* answers D
C22_Witness ==
    /\ DecideReturned /\ call.args.strat = "ForgivingTitForTat"
    /\ call.args.opponent_history = <<"C", "D", "D">>
    /\ ret.move = "C" /\ decide("TitForTat", <<"C", "D", "D">>) = "D"


----------------------------------------------------------------------------
(* the validations of the match operations *)

MatchCalled == MatchOperation /\ pc # "idle"

\* nothing of a match has happened: no decision, no human move, no payoff
\* lookup, no round recorded, no match loop entered
NothingPlayed ==
    /\ obs = NoObs /\ frame = NoFrame
    /\ round_num = 0 /\ move_history = <<>>

\* the failures that name a strategy the engine cannot play and list the
\* available names: engine.py 29 (no registry entry) and engine.py 76 (not
\* among the engine's strategies)
UnknownStrategyErrors == {"UnknownStrategy", "StrategyNotConfigured"}

Unregistered(name) == name # None_ /\ name \notin STRATEGY_REGISTRY

\* a strategy name of the call has no registry entry
GivenUnregistered ==
    Unregistered(call.args.strat1_name) \/ Unregistered(call.args.strat2_name)

\* a strategy name the operation plays has no registry entry: both names in
\* _play_match, repeated_match and mode 0 of play_game, strat2_name in mode 1
PlayedUnregistered ==
    IF call.op = "play_game"
    THEN \/ call.args.mode = 0 /\ Unregistered(call.args.strat1_name)
         \/ call.args.mode \in {0, 1} /\ Unregistered(call.args.strat2_name)
    ELSE GivenUnregistered

\* C23 (as claimed): a match requested with a game name that is not loaded
\* fails with UnknownGame and, the game being loaded, one requested with a
\* strategy name that has no registry entry fails with UnknownStrategy,
\* before anything is played.
C23_Claimed_AnyUnregisteredNameRejected ==
    MatchCalled =>
      /\ ~HasGame(call.args.game_name) =>
           pc = "raised" /\ err = "UnknownGame" /\ NothingPlayed
      /\ (HasGame(call.args.game_name) /\ GivenUnregistered) =>
           pc = "raised" /\ err \in UnknownStrategyErrors /\ NothingPlayed

\* C23 (amended): a match requested with a game name that is not loaded
\* fails with UnknownGame and, the game being loaded, one requested with an
\* unregistered name for a strategy that the operation and mode play fails
\* with UnknownStrategy; both before any decision, human move or payoff
\* lookup and without a MatchResult.
C23_UnknownGameOrPlayedStrategyRejected ==
    MatchCalled =>
      /\ ~HasGame(call.args.game_name) =>
           pc = "raised" /\ err = "UnknownGame" /\ NothingPlayed
      /\ (HasGame(call.args.game_name) /\ PlayedUnregistered) =>
           pc = "raised" /\ err \in UnknownStrategyErrors /\ NothingPlayed

\* C23 witness: play_game on PD in mode 0 with NonExistent against TitForTat
\* has failed with UnknownStrategy
C23_Witness ==
    /\ call.op = "play_game" /\ call.args.game_name = "PD"
    /\ call.args.mode = 0 /\ call.args.strat1_name = "NonExistent"
    /\ call.args.strat2_name = "TitForTat"
    /\ pc = "raised" /\ err = "UnknownStrategy" /\ NothingPlayed


PlayGameCalled == call.op = "play_game" /\ pc # "idle"

Missing(name) == name = None_ \/ name = ""

\* the mode is unsupported, or a strategy name the mode requires is missing
BadModeOrMissingStrategy ==
    \/ call.args.mode \notin {0, 1, 2}
    \/ /\ call.args.mode = 0
       /\ Missing(call.args.strat1_name) \/ Missing(call.args.strat2_name)
    \/ call.args.mode = 1 /\ Missing(call.args.strat2_name)

----------------------------------------------------------------------------
(* play_game in mode 0 against _play_match without noise *)

RECURSIVE play_game_rounds(_, _, _, _, _)
\* the loop of play_game in mode 0 as a function: the trace and the scores
\* after `left` more rounds from the histories, trace and scores in st, or
\* the error get_payoff raises with the trace up to the failing round
play_game_rounds(strat1, strat2, game, left, st) ==
    IF left <= 0
    THEN [raised |-> "", moves |-> st.move_history, scores |-> st.scores]
    ELSE LET p1 == decide(strat1, st.p2_moves)
             p2 == decide(strat2, st.p1_moves)
             payoff == get_payoff(game, p1, p2)
             moves == Append(st.move_history, <<p1, p2>>)
         IN IF payoff.raised # ""
            THEN [raised |-> payoff.raised, moves |-> moves,
                  scores |-> st.scores]
            ELSE play_game_rounds(strat1, strat2, game, left - 1,
                   [p1_moves |-> Append(st.p1_moves, p1),
                    p2_moves |-> Append(st.p2_moves, p2),
                    move_history |-> moves,
                    scores |-> <<st.scores[1] + payoff.payoff[1],
                                 st.scores[2] + payoff.payoff[2]>>])

\* what play_game in mode 0 has played and scored after k rounds of the
\* running match's game and strategies
PlayGameAfter(k) ==
    play_game_rounds(frame.strat1, frame.strat2, GameOf(frame.game_name), k,
                     [p1_moves |-> <<>>, p2_moves |-> <<>>,
                      move_history |-> <<>>, scores |-> <<0, 0>>])

\* a match between two strategies in which no noise is applied: play_game
\* in mode 0, or _play_match with noise 0
NoiselessMatch ==
    /\ frame.op \in {"_play_match", "play_game"} /\ frame.mode = 0
    /\ frame.noise = 0 /\ BothStrategies

\* the rounds the running match has completed
RoundsDone ==
    IF pc = "decide_p1" THEN round_num - 1
    ELSE IF frame.rounds >= 1 THEN frame.rounds ELSE 0

\* C25: round by round, a _play_match with noise 0 and a play_game in mode
\* 0 on the same game, strategies and round count hold the same move trace
\* and the same scores, that of play_game's loop taken as a function, and
\* fail in the same round with the same error where the game rejects a
\* move.
C25_PlayGameEquivalentToPlayMatch ==
    NoiselessMatch =>
      /\ pc \in {"decide_p1", "finish", "returned"} =>
           /\ PlayGameAfter(RoundsDone).raised = ""
           /\ move_history = PlayGameAfter(RoundsDone).moves
           /\ <<p1_score, p2_score>> = PlayGameAfter(RoundsDone).scores
      /\ pc = "raised" =>
           /\ PlayGameAfter(round_num).raised = err
           /\ move_history = PlayGameAfter(round_num).moves
           /\ <<p1_score, p2_score>> = PlayGameAfter(round_num).scores

\* C25 witness: a _play_match of GrimTrigger against AlwaysDefect over 3
\* rounds of the Prisoner's Dilemma without noise has returned what
\* play_game's loop yields, the trace (C,D), (D,D), (D,D) and the scores
\* (2, 7)
C25_Witness ==
    /\ MatchReturned /\ call.op = "_play_match" /\ NoiselessMatch
    /\ frame.game_name = "PD" /\ frame.rounds = 3
    /\ frame.strat1 = "GrimTrigger" /\ frame.strat2 = "AlwaysDefect"
    /\ move_history = <<<<"C", "D">>, <<"D", "D">>, <<"D", "D">>>>
    /\ move_history = PlayGameAfter(3).moves
    /\ <<p1_score, p2_score>> = <<2, 7>>


\* the stages of one generation step between the frequency record and
\* `pop[:] = offspring`
InGenerationStep == pc \in {"evo_select", "evo_crossover", "evo_mutate"}

\* the strategy of index `gene` has a non-zero count in the frequencies of
\* the generation being evolved
PresentInGeneration(gene) == Last(evo.freq_history).counts[gene + 1] > 0

\* a strategy absent from the recorded generation is carried by the
\* offspring pool only at a place the mutation loop has visited and changed
C26_AbsentGeneOnlyAtMutant ==
    InGenerationStep =>
      /\ idx_counts(evo.pop) = Last(evo.freq_history).counts
      /\ \A k \in 1..Len(evo.offspring) :
           ~ PresentInGeneration(evo.offspring[k].gene) =>
             /\ pc = "evo_mutate"
             /\ k < evo.i
             /\ ~ evo.offspring[k].valid

\* what one step of selection, crossover or mutation changes
C26_GenerationStep ==
    /\ pc = "evo_select" =>
         /\ evo'.pop = evo.pop
         /\ \E p \in 1..Len(evo.pop) :
              evo'.offspring = Append(evo.offspring, evo.pop[p])
    /\ pc = "evo_crossover" =>
         LET c1 == 2 * evo.i - 1
             c2 == 2 * evo.i
         IN /\ evo'.pop = evo.pop
            /\ Len(evo'.offspring) = Len(evo.offspring)
            /\ \A k \in 1..Len(evo.offspring) :
                 k \notin {c1, c2} => evo'.offspring[k] = evo.offspring[k]
            /\ <<evo'.offspring[c1].gene, evo'.offspring[c2].gene>> \in
                 {<<evo.offspring[c1].gene, evo.offspring[c2].gene>>,
                  <<evo.offspring[c2].gene, evo.offspring[c1].gene>>}
    /\ pc = "evo_mutate" =>
         LET after == IF pc' = "evo_mutate" THEN evo'.offspring ELSE evo'.pop
         IN /\ pc' = "evo_mutate" => evo'.pop = evo.pop
            /\ Len(after) = Len(evo.offspring)
            /\ \A k \in 1..Len(evo.offspring) :
                 k # evo.i => after[k] = evo.offspring[k]
    /\ pc = "evo_evaluate" =>
         \A k \in 1..Len(evo.pop) : evo'.pop[k].gene = evo.pop[k].gene

\* C26: in a generation step selection appends a copy of an individual of
\* the current population and leaves the population alone; crossover
\* changes only its adjacent pair and leaves the pair's genes as they were
\* or swapped; mutation changes only the mutant it visits; so a strategy
\* with count 0 in the recorded generation is found in the offspring, and in
\* the next population, only at an individual the mutation has changed
C26_NewStrategyOnlyByMutation ==
    [] C26_AbsentGeneOnlyAtMutant /\ [][C26_GenerationStep]_vars

\* the first recorded generation had no individual of the second strategy
\* and the one evolved from it has one
C26_Witness ==
    /\ pc = "evo_select"
    /\ Len(evo.freq_history) = 2
    /\ evo.pop_size = 2
    /\ evo.freq_history[1].counts = <<2, 0>>
    /\ evo.freq_history[2].counts = <<1, 1>>

====
